---------------------------- MODULE Spec2Model ----------------------------
(***************************************************************************)
(* Model of src/markdown-preview-view/util.ts: the line-map builder        *)
(* (buildLineMap) and the preview stylesheet collector (getPreviewStyles). *)
(*                                                                         *)
(* Two independent components, two specifications:                         *)
(*   Spec        buildLineMap called on a parsed document                  *)
(*   StylesSpec  getPreviewStyles called in a host environment             *)
(***************************************************************************)
EXTENDS Integers, Sequences, FiniteSets, TLC

VARIABLES
    dom,      \* the document DOMParser produced from the html argument
    map,      \* the map returned by the latest buildLineMap call
    outcome,  \* how the latest buildLineMap call ended
    called,   \* whether buildLineMap has been called
    env,      \* the host environment getPreviewStyles reads (atom.*, window)
    styles,   \* the list returned by the latest getPreviewStyles call
    warnings, \* number of atom.notifications.addWarning calls so far
    shown     \* the display argument of the latest getPreviewStyles call

vars == <<dom, map, outcome, called, env, styles, warnings, shown>>

lineMapVars == <<dom, map, outcome, called>>
styleVars == <<env, styles, warnings, shown>>

-----------------------------------------------------------------------------
(* Bounds of the model *)

\* largest number of elements below <body> in a generated tree
MaxElems == 3
\* longest data-source-lines attribute value of the parse documents
MaxAttrLen == 4
\* largest number of getPreviewStyles calls explored
MaxStyleCalls == 2

-----------------------------------------------------------------------------
(* JavaScript values: numbers, NaN and undefined *)

Num(n) == [kind |-> "number", val |-> n]
NaN == [kind |-> "NaN", val |-> 0]
Undefined == [kind |-> "undefined", val |-> 0]

\* the digits the attribute values of the model are written with
Digits == {"0", "1", "2"}
DigitVal(c) == CASE c = "0" -> 0 [] c = "1" -> 1 [] c = "2" -> 2

\* String.prototype.split(' '): cut at every single space, empty tokens kept
RECURSIVE SplitAcc(_, _, _, _)
SplitAcc(s, i, cur, toks) ==
    IF i > Len(s) THEN Append(toks, cur)
    ELSE IF s[i] = " " THEN SplitAcc(s, i + 1, <<>>, Append(toks, cur))
    ELSE SplitAcc(s, i + 1, Append(cur, s[i]), toks)

Split(s) == SplitAcc(s, 1, <<>>, <<>>)

\* value of the longest prefix of digits of tok from position i on
RECURSIVE DigitPrefix(_, _, _)
DigitPrefix(tok, i, acc) ==
    IF i > Len(tok) \/ tok[i] \notin Digits THEN acc
    ELSE DigitPrefix(tok, i + 1, 10 * acc + DigitVal(tok[i]))

\* faulty variant: a token without a leading integer reads as 0
ParseIntNaNIsZero(tok) ==
    LET signed == Len(tok) >= 1 /\ tok[1] = "-"
        first == IF signed THEN 2 ELSE 1
    IN  IF first > Len(tok) \/ tok[first] \notin Digits THEN Num(0)
        ELSE IF signed THEN Num(0 - DigitPrefix(tok, first, 0))
        ELSE Num(DigitPrefix(tok, first, 0))

\* parseInt(x, 10): optional sign, then the longest prefix of digits; NaN
\* when there is no digit there; whatever follows the digits is ignored
ParseInt(tok) ==
    LET signed == Len(tok) >= 1 /\ tok[1] = "-"
        first == IF signed THEN 2 ELSE 1
    IN  IF first > Len(tok) \/ tok[first] \notin Digits THEN NaN
        ELSE IF signed THEN Num(0 - DigitPrefix(tok, first, 0))
        ELSE Num(DigitPrefix(tok, first, 0))

\* const [start, end] = ....split(' ').map((x) => parseInt(x, 10))
ParseRange(s) ==
    LET toks == Split(s)
    IN  [start |-> ParseInt(toks[1]),
         end |-> IF Len(toks) >= 2 THEN ParseInt(toks[2]) ELSE Undefined]

\* the relational operator a < b: false when an operand is NaN or undefined
LessThan(a, b) == a.kind = "number" /\ b.kind = "number" /\ a.val < b.val

-----------------------------------------------------------------------------
(* The document: elements are numbered 1..n in document order (preorder);  *)
(* parent[e] = 0 when e has no parentElement (the root <html> element).    *)

Nodes(d) == 1..Len(d.parent)

NoAttr == [has |-> FALSE, val |-> <<>>]
Attr(s) == [has |-> TRUE, val |-> s]

\* Element.tagName of an HTML element is upper case; toLowerCase() of it
ToLowerCase(t) ==
    CASE t = "HTML" -> "html" [] t = "HEAD" -> "head" [] t = "TITLE" -> "title"
      [] t = "BODY" -> "body" [] t = "DIV" -> "div" [] t = "P" -> "p"

\* the elements the previousElementSibling chain of e visits
PreviousSiblings(d, e) ==
    {s \in Nodes(d) : d.parent[s] = d.parent[e] /\ s < e}

\* faulty variant: counts every preceding sibling, whatever its tag name
SiblingIndexAnyTag(d, e) == Cardinality(PreviousSiblings(d, e))

\* the inner while loop: previous siblings that have e's tagName
SiblingIndex(d, e) ==
    Cardinality({s \in PreviousSiblings(d, e) : d.tag[s] = d.tag[e]})

\* the outer while loop: up the parentElement links until there is no
\* element or the element is BODY, each step put in front of the path
RECURSIVE Walk(_, _, _)
Walk(d, e, path) ==
    IF e = 0 \/ d.tag[e] = "BODY" THEN path
    ELSE Walk(d, d.parent[e],
              <<[tag |-> ToLowerCase(d.tag[e]), index |-> SiblingIndex(d, e)]>>
                  \o path)

\* faulty variant: push instead of unshift, the path runs from the element up
RECURSIVE WalkAppending(_, _, _)
WalkAppending(d, e, path) ==
    IF e = 0 \/ d.tag[e] = "BODY" THEN path
    ELSE WalkAppending(d, d.parent[e],
              Append(path,
                     [tag |-> ToLowerCase(d.tag[e]), index |-> SiblingIndex(d, e)]))

PathOfReversed(d, elem) == WalkAppending(d, elem, <<>>)

PathOf(d, elem) == Walk(d, elem, <<>>)

\* dom.querySelectorAll('[data-source-lines]'): the elements that carry the
\* attribute; document order is the order of the numbers
Selected(d) == {e \in Nodes(d) : d.attr[e].has}

\* faulty variant: i <= end
LoopLinesInclusive(start, end) ==
    IF start.kind = "number" /\ end.kind = "number" /\ start.val <= end.val
    THEN start.val .. end.val ELSE {}

\* the values i takes in  for (let i = start; i < end; ++i)
LoopLines(start, end) ==
    IF LessThan(start, end) THEN start.val .. (end.val - 1) ELSE {}

EmptyMap == [i \in {} |-> <<>>]

\* faulty variant: <= in place of <
OverwritesOrEqual(m, i, path) == i \notin DOMAIN m \/ Len(m[i]) <= Len(path)

\* faulty variant: the length comparison is missing
OverwritesFirstOnly(m, i, path) == i \notin DOMAIN m

\* !map[i] || map[i].length < path.length  (a stored path, even an empty
\* one, is an object and so is truthy)
Overwrites(m, i, path) == i \notin DOMAIN m \/ Len(m[i]) < Len(path)

\* faulty variant: every element overwrites the entries of its lines
StoreLastWins(m, lines, path) ==
    [i \in (DOMAIN m) \cup lines |-> IF i \in lines THEN path ELSE m[i]]

\* faulty variant: the entries of the other lines are lost
StoreForgetting(m, lines, path) ==
    [i \in lines |->
        IF i \in lines /\ Overwrites(m, i, path) THEN path ELSE m[i]]

\* the for loop over the lines of one element
Store(m, lines, path) ==
    [i \in (DOMAIN m) \cup lines |->
        IF i \in lines /\ Overwrites(m, i, path) THEN path ELSE m[i]]

\* the for-of loop over the selected elements, from element e on
RECURSIVE BuildFrom(_, _, _)
BuildFrom(d, e, m) ==
    IF e > Len(d.parent) THEN m
    ELSE IF e \notin Selected(d) THEN BuildFrom(d, e + 1, m)
    ELSE LET r == ParseRange(d.attr[e].val)
         IN  BuildFrom(d, e + 1, Store(m, LoopLines(r.start, r.end), PathOf(d, e)))

buildLineMap(d) == BuildFrom(d, 1, EmptyMap)

\* he.dataset.sourceLines!.split(...) is the only expression of the function
\* that can throw, and only for an element without the attribute
Outcome(d) ==
    IF \E e \in Selected(d) : ~d.attr[e].has THEN "TypeError" ELSE "returned"

-----------------------------------------------------------------------------
(* The documents DOMParser.parseFromString(html, 'text/html') produces: a  *)
(* root <html> with a <head> and a <body>; the head is empty or holds an   *)
(* annotated <title>, or the body itself is annotated; below the body, any *)
(* ordered forest of <div> and <p>.                                        *)

\* n and its ancestors in the forest f (f[n] = 0: n is a child of the body)
RECURSIVE AncestorsOrSelf(_, _)
AncestorsOrSelf(f, n) == IF n = 0 THEN {} ELSE {n} \cup AncestorsOrSelf(f, f[n])

\* the parent sequences of the ordered forests of k elements, numbered in
\* document order: the next element is a child of the body or of an element
\* on the path to the last one
RECURSIVE Forests(_)
Forests(k) ==
    IF k = 0 THEN {<<>>}
    ELSE UNION {{Append(f, p) : p \in {0} \cup AncestorsOrSelf(f, Len(f))} :
                 f \in Forests(k - 1)}

ElemTags == {"DIV", "P"}

TreeAttrs == {NoAttr, Attr(<<"0", " ", "1">>), Attr(<<"0", " ", "2">>)}

MkDom(withTitle, bodyAttr, f, tags, attrs) ==
    LET headParent == IF withTitle THEN <<0, 1, 2, 1>> ELSE <<0, 1, 1>>
        headTag == IF withTitle THEN <<"HTML", "HEAD", "TITLE", "BODY">>
                   ELSE <<"HTML", "HEAD", "BODY">>
        headAttr == IF withTitle
                    THEN <<NoAttr, NoAttr, Attr(<<"0", " ", "2">>), bodyAttr>>
                    ELSE <<NoAttr, NoAttr, bodyAttr>>
        b == Len(headParent)
    IN  [parent |-> headParent \o
                      [i \in 1..Len(f) |-> IF f[i] = 0 THEN b ELSE f[i] + b],
         tag |-> headTag \o tags,
         attr |-> headAttr \o attrs]

\* dom is a document with at most MaxElems elements below the body
IsTreeDoc ==
    \E k \in 0..MaxElems :
      \E withTitle \in BOOLEAN, bodyAttr \in {NoAttr, Attr(<<"0", " ", "2">>)} :
        \E f \in Forests(k), tags \in [1..k -> ElemTags], attrs \in [1..k -> TreeAttrs] :
            /\ ~(withTitle /\ bodyAttr.has)
            /\ dom = MkDom(withTitle, bodyAttr, f, tags, attrs)

\* attribute values: every string of at most MaxAttrLen of these characters
AttrChars == {"0", "1", "2", " ", "x", "-"}

AttrStrings == UNION {[1..n -> AttrChars] : n \in 0..MaxAttrLen}

\* <body><div data-source-lines=s></div><p data-source-lines="0 1"></p>
IsParseDoc ==
    \E s \in AttrStrings :
        dom = MkDom(FALSE, NoAttr, <<0, 0>>, <<"DIV", "P">>,
                    <<Attr(s), Attr(<<"0", " ", "1">>)>>)

-----------------------------------------------------------------------------
(* buildLineMap as the program calls it *)

InitLineMap ==
    /\ (IsTreeDoc \/ IsParseDoc)
    /\ map = EmptyMap
    /\ outcome = "none"
    /\ called = FALSE

\* faulty variant: the call strips the attribute off the elements
BuildLineMapConsuming ==
    /\ map' = buildLineMap(dom)
    /\ outcome' = Outcome(dom)
    /\ called' = TRUE
    /\ dom' = [dom EXCEPT !.attr = [e \in Nodes(dom) |-> NoAttr]]
    /\ UNCHANGED styleVars

\* export function buildLineMap(html: string): parse, build, return the
\* map; the function may be called again on the same input at any time
BuildLineMapCall ==
    /\ map' = buildLineMap(dom)
    /\ outcome' = Outcome(dom)
    /\ called' = TRUE
    /\ UNCHANGED dom
    /\ UNCHANGED styleVars

-----------------------------------------------------------------------------
(* getPreviewStyles.  A style sheet's text is a sequence of tokens; the    *)
(* host environment env says which sheets, packages and themes exist and   *)
(* what the package configuration holds.                                   *)

\* atom.themes.loadStylesheet(<package>/styles-client/<file>.less)
getClientStyle(file) == <<"styles-client", file>>

\* style.replace(/\batom-text-editor\b/g, 'pre.editor-colors') on each text
processEditorStyles(list) ==
    [k \in 1..Len(list) |->
        [j \in 1..Len(list[k]) |->
            IF list[k][j] = "atom-text-editor" THEN "pre.editor-colors"
            ELSE list[k][j]]]

\* style.replace(/\batom-workspace\b/g, ':root') on each text
processWorkspaceStyles(list) ==
    [k \in 1..Len(list) |->
        [j \in 1..Len(list[k]) |->
            IF list[k][j] = "atom-workspace" THEN ":root" ELSE list[k][j]]]

\* atom.styles.getStyleElements(): the style elements currently registered
StyleElements ==
    <<[context |-> "atom-text-editor", text |-> <<"atom-text-editor", "syntax">>],
      [context |-> "atom-workspace", text |-> <<"atom-workspace", "ui">>]>>

\* function* getStyles(context): the innerText of every element when no
\* context is given (context = <<>>), else of the elements of that context
RECURSIVE getStylesFrom(_, _)
getStylesFrom(context, k) ==
    IF k > Len(StyleElements) THEN <<>>
    ELSE (IF context = <<>> \/ <<StyleElements[k].context>> = context
          THEN <<StyleElements[k].text>> ELSE <<>>)
             \o getStylesFrom(context, k + 1)

getStyles(context) == getStylesFrom(context, 1)

\* the user style sheet's element, when there is one
getUserStyles(e) ==
    IF e.userSheet THEN <<(<<"atom-text-editor", "user">>)>> ELSE <<>>

\* the theme named themeName is loaded: its style sheets, processed
ThemeLoaded(e, themeName) == themeName \in e.loadedThemes

ThemeSheets(themeName) == <<(<<"atom-text-editor", themeName>>)>>

\* whether getSyntaxTheme warns: a theme is named and is not loaded
SyntaxThemeWarns(e) ==
    e.syntaxThemeName # "" /\ ~ThemeLoaded(e, e.syntaxThemeName)

getSyntaxTheme(e) ==
    IF e.syntaxThemeName # "" /\ ThemeLoaded(e, e.syntaxThemeName)
    THEN processEditorStyles(ThemeSheets(e.syntaxThemeName))
    ELSE processEditorStyles(getStyles(<<"atom-text-editor">>))

\* the style sheets of an active package that have a style element
getActivePackageStyles(e, packageName) ==
    IF packageName \notin e.activePackages THEN <<>>
    ELSE <<(<<"atom-text-editor", packageName>>)>>

Includes(list, x) == \E k \in 1..Len(list) : list[k] = x

\* for (const pack of packList) styles.push(...)
RECURSIVE PackageStylesFrom(_, _, _)
PackageStylesFrom(e, packList, k) ==
    IF k > Len(packList) THEN <<>>
    ELSE processEditorStyles(getActivePackageStyles(e, packList[k]))
            \o PackageStylesFrom(e, packList, k + 1)

\* the  if (display) { ... }  block
DisplayStyles(e) ==
    LET packList == e.importPackageStyles
    IN  (IF e.globalStyles
         THEN processWorkspaceStyles(
                  <<(<<"atom-workspace", "atom-text-editor", "global">>)>>)
         ELSE <<>>)
        \o <<getClientStyle("editor-global-font")>>
        \o (IF Includes(packList, "*")
            THEN processEditorStyles(getStyles(<<>>)) \o <<getClientStyle("patch")>>
            ELSE PackageStylesFrom(e, packList, 1)
                 \o (IF Includes(packList, "fonts") /\ e.fontsVar
                     THEN processEditorStyles(
                              <<(<<"atom-text-editor", "fonts-var">>)>>)
                     ELSE <<>>))

\* window['markdown-preview-plus-tests'].getStylesOverride(display)
getStylesOverride(display) ==
    <<(<<"override", IF display THEN "display" ELSE "export">>)>>

\* faulty variant: the user styles are pushed before the syntax theme
getPreviewStylesUserFirst(e, display) ==
    IF e.override THEN getStylesOverride(display)
    ELSE (IF display THEN DisplayStyles(e) ELSE <<>>)
         \o <<getClientStyle("generic")>>
         \o (IF display THEN <<getClientStyle("display")>> ELSE <<>>)
         \o <<getClientStyle(IF e.useGitHubStyle THEN "github" ELSE "default")>>
         \o processEditorStyles(getUserStyles(e))
         \o getSyntaxTheme(e)

getPreviewStyles(e, display) ==
    IF e.override THEN getStylesOverride(display)
    ELSE (IF display THEN DisplayStyles(e) ELSE <<>>)
         \o <<getClientStyle("generic")>>
         \o (IF display THEN <<getClientStyle("display")>> ELSE <<>>)
         \o <<getClientStyle(IF e.useGitHubStyle THEN "github" ELSE "default")>>
         \o getSyntaxTheme(e)
         \o processEditorStyles(getUserStyles(e))

Environments ==
    [override : BOOLEAN,
     globalStyles : BOOLEAN,
     fontsVar : BOOLEAN,
     userSheet : BOOLEAN,
     useGitHubStyle : BOOLEAN,
     importPackageStyles :
         {<<>>, <<"*">>, <<"fonts">>, <<"minimap">>, <<"minimap", "fonts">>},
     activePackages : SUBSET {"minimap", "fonts"},
     syntaxThemeName : {"", "one-dark-syntax", "missing-syntax"},
     loadedThemes : {{"one-dark-syntax"}}]

DefaultEnv ==
    [override |-> FALSE, globalStyles |-> FALSE, fontsVar |-> FALSE,
     userSheet |-> FALSE, useGitHubStyle |-> FALSE,
     importPackageStyles |-> <<>>, activePackages |-> {},
     syntaxThemeName |-> "", loadedThemes |-> {"one-dark-syntax"}]

InitStyles ==
    /\ env \in Environments
    /\ styles = <<>>
    /\ warnings = 0
    /\ shown = <<>>

\* export function getPreviewStyles(display: boolean): string[]; shown keeps
\* the display arguments of the calls made
GetPreviewStylesCall ==
    /\ Len(shown) < MaxStyleCalls
    /\ \E display \in BOOLEAN :
          /\ styles' = getPreviewStyles(env, display)
          /\ warnings' = IF ~env.override /\ SyntaxThemeWarns(env)
                         THEN warnings + 1 ELSE warnings
          /\ shown' = Append(shown, display)
    /\ UNCHANGED env
    /\ UNCHANGED lineMapVars

-----------------------------------------------------------------------------
(* The specifications *)

Init ==
    /\ InitLineMap
    /\ env = DefaultEnv /\ styles = <<>> /\ warnings = 0 /\ shown = <<>>

Next == BuildLineMapCall

Spec == Init /\ [][Next]_vars

StylesInit ==
    /\ InitStyles
    /\ dom = MkDom(FALSE, NoAttr, <<>>, <<>>, <<>>)
    /\ map = EmptyMap /\ outcome = "none" /\ called = FALSE

StylesNext == GetPreviewStylesCall

StylesSpec == StylesInit /\ [][StylesNext]_vars

-----------------------------------------------------------------------------
(* Vocabulary of the properties *)

\* the annotated elements: those that carry the source-lines attribute
Annotated == Selected(dom)

Range(e) == ParseRange(dom.attr[e].val)

\* e's attribute gives two integers
HasRange(e) == Range(e).start.kind = "number" /\ Range(e).end.kind = "number"

\* the lines of e's half-open range [start, end)
HalfOpen(e) ==
    LET r == Range(e)
    IN  IF r.start.kind = "number" /\ r.end.kind = "number"
        THEN {i \in r.start.val .. r.end.val : i # r.end.val}
        ELSE {}

\* each annotated element's range and path
Ranges == [e \in Annotated |-> HalfOpen(e)]
Paths == [e \in Annotated |-> PathOf(dom, e)]

IsStrictPrefix(p, q) ==
    Len(p) < Len(q) /\ \A k \in 1..Len(p) : p[k] = q[k]

\* C1: every entry of the returned map holds the path of an annotated element
\* that covers the line, of the greatest path length among the annotated
\* elements covering the line, and the first such element in document order
C1_DeepestFirstWins ==
    called =>
        LET R == Ranges
            P == Paths
        IN  \A i \in DOMAIN map :
              \E e \in Annotated :
                /\ i \in R[e]
                /\ map[i] = P[e]
                /\ \A o \in Annotated :
                       i \in R[o] =>
                           /\ Len(P[o]) <= Len(P[e])
                           /\ (Len(P[o]) = Len(P[e]) => e <= o)

\* a line covered by two elements of the greatest depth and a shallower one
C1_Witness ==
    /\ called
    /\ LET R == Ranges
           P == Paths
       IN  \E i \in DOMAIN map :
             \E e1, e2, e3 \in Annotated :
                /\ e1 < e2
                /\ i \in R[e1] /\ i \in R[e2] /\ i \in R[e3]
                /\ Len(P[e1]) = Len(P[e2])
                /\ Len(P[e3]) < Len(P[e1])
                /\ map[i] = P[e1]

\* C2: every entry of the returned map holds the path of some annotated
\* element whose range contains the entry's line
C2_EntryFromCoveringElement ==
    called =>
        LET R == Ranges
            P == Paths
        IN  \A i \in DOMAIN map :
              \E e \in Annotated : i \in R[e] /\ map[i] = P[e]

\* a map with an entry while another annotated element does not cover its line
C2_Witness ==
    /\ called
    /\ LET R == Ranges
           P == Paths
       IN  \E i \in DOMAIN map :
             \E e, o \in Annotated :
                i \in R[e] /\ map[i] = P[e] /\ R[o] # {} /\ i \notin R[o]

\* C3 as stated: with A's path a strict prefix of B's and both covering line
\* i, the map stores B's path for i, whatever else the tree contains
C3_AsStated ==
    called =>
        LET R == Ranges
            P == Paths
        IN  \A a, b \in Annotated :
              IsStrictPrefix(P[a], P[b]) =>
                \A i \in R[a] \cap R[b] : i \in DOMAIN map /\ map[i] = P[b]

\* C3 amended: with A's path a strict prefix of B's and both covering line i,
\* the map never stores A's path for i; it stores a path at least as long as
\* B's, and B's own path when no third annotated element covers i
C3_NestedBeatsAncestor ==
    called =>
        LET R == Ranges
            P == Paths
        IN  \A a, b \in Annotated :
              IsStrictPrefix(P[a], P[b]) =>
                \A i \in R[a] \cap R[b] :
                    /\ i \in DOMAIN map
                    /\ map[i] # P[a]
                    /\ Len(map[i]) >= Len(P[b])
                    /\ (\A o \in Annotated \ {a, b} : i \notin R[o])
                           => map[i] = P[b]

\* a nested pair below the body covering a line that no third element covers
C3_Witness ==
    /\ called
    /\ LET R == Ranges
           P == Paths
       IN  \E a, b \in Annotated :
             /\ IsStrictPrefix(P[a], P[b])
             /\ Len(P[a]) >= 1
             /\ \E i \in R[a] \cap R[b] :
                   /\ \A o \in Annotated \ {a, b} : i \notin R[o]
                   /\ i \in DOMAIN map /\ map[i] = P[b]

\* C4 as stated: of two elements of equal path length that cover line i, the
\* map stores the path of the first in document order, whatever else the
\* tree contains
C4_AsStated ==
    called =>
        LET R == Ranges
            P == Paths
        IN  \A e1, e2 \in Annotated :
              (e1 < e2 /\ Len(P[e1]) = Len(P[e2])) =>
                \A i \in R[e1] \cap R[e2] : i \in DOMAIN map /\ map[i] = P[e1]

\* C4 amended: of two elements of equal path length that cover line i, the
\* map never stores the path of the later one; it stores a path at least as
\* long, and the earlier one's path when no third annotated element covers i
C4_EqualDepthFirstWins ==
    called =>
        LET R == Ranges
            P == Paths
        IN  \A e1, e2 \in Annotated :
              (e1 < e2 /\ Len(P[e1]) = Len(P[e2])) =>
                \A i \in R[e1] \cap R[e2] :
                    /\ i \in DOMAIN map
                    /\ map[i] # P[e2]
                    /\ Len(map[i]) >= Len(P[e1])
                    /\ (\A o \in Annotated \ {e1, e2} : i \notin R[o])
                           => map[i] = P[e1]

\* two equally deep elements covering a line that no third element covers
C4_Witness ==
    /\ called
    /\ LET R == Ranges
           P == Paths
       IN  \E e1, e2 \in Annotated :
             /\ e1 < e2 /\ Len(P[e1]) = Len(P[e2])
             /\ \E i \in R[e1] \cap R[e2] :
                   /\ \A o \in Annotated \ {e1, e2} : i \notin R[o]
                   /\ i \in DOMAIN map /\ map[i] = P[e1]

\* the token is a decimal integer: digits, after an optional sign
IsInteger(tok) ==
    LET first == IF Len(tok) >= 1 /\ tok[1] = "-" THEN 2 ELSE 1
    IN  first <= Len(tok) /\ \A k \in first..Len(tok) : tok[k] \in Digits

\* the token begins with a decimal integer
LeadsWithInteger(tok) ==
    LET first == IF Len(tok) >= 1 /\ tok[1] = "-" THEN 2 ELSE 1
    IN  first <= Len(tok) /\ tok[first] \in Digits

\* a malformed attribute value: fewer than two tokens, or a token that is
\* not an integer
Malformed(s) ==
    LET toks == Split(s)
    IN  Len(toks) < 2 \/ \E k \in 1..Len(toks) : ~IsInteger(toks[k])

\* an attribute value without two leading integers: fewer than two tokens,
\* or a first or second token that does not begin with an integer
Unreadable(s) ==
    LET toks == Split(s)
    IN  Len(toks) < 2 \/ ~LeadsWithInteger(toks[1]) \/ ~LeadsWithInteger(toks[2])

\* the document without the annotation of the unreadable elements
WithoutUnreadable(d) ==
    [d EXCEPT !.attr = [e \in Nodes(d) |->
        IF d.attr[e].has /\ Unreadable(d.attr[e].val) THEN NoAttr ELSE d.attr[e]]]

C6_EntriesAreUnionOfRanges ==
    called => DOMAIN map = UNION {HalfOpen(e) : e \in Annotated}

\* a map with entries from a tree that has an element of range (0,1) and an
\* element with start >= end
C6_Witness ==
    /\ called
    /\ map # EmptyMap
    /\ \E e, o \in Annotated :
          /\ HalfOpen(e) = {0}
          /\ HasRange(o) /\ Range(o).start.val >= Range(o).end.val

RECURSIVE ChainFromRoot(_)
ChainFromRoot(e) ==
    IF e = 0 THEN <<>> ELSE Append(ChainFromRoot(dom.parent[e]), e)

\* the positions of the BODY element in the chain from the root to e
BodyAt(e) ==
    LET chain == ChainFromRoot(e)
    IN  {k \in 1..Len(chain) : dom.tag[chain[k]] = "BODY"}

\* e lies below the body: a proper ancestor of e is the BODY element
BelowBody(e) == BodyAt(e) # {} /\ dom.tag[e] # "BODY"

\* the elements from the child of the body down to e, outermost first
ChainFromBody(e) ==
    LET chain == ChainFromRoot(e)
        at == BodyAt(e)
    IN  IF at = {} THEN <<>>
        ELSE SubSeq(chain, (CHOOSE k \in at : TRUE) + 1, Len(chain))

\* number of the siblings before n that have n's tag name
PrecedingOfSameTag(n) ==
    Cardinality({s \in Nodes(dom) :
        dom.parent[s] = dom.parent[n] /\ s < n /\ dom.tag[s] = dom.tag[n]})

\* path has one step per element of chain, in order, each with the
\* element's tag name and its number of preceding siblings of that tag name
StepsMatch(path, chain) ==
    /\ Len(path) = Len(chain)
    /\ \A k \in 1..Len(chain) :
          /\ path[k].tag = ToLowerCase(dom.tag[chain[k]])
          /\ path[k].index = PrecedingOfSameTag(chain[k])

\* C8 as stated: the path of every annotated element has one step per
\* element from the child of the body down to it
C8_AsStated ==
    called =>
        \A e \in Annotated : StepsMatch(PathOf(dom, e), ChainFromBody(e))

\* C8 amended: the path of an annotated element that is the body or lies
\* below it has one step per element from the child of the body down to it
\* (outermost first; tag name, number of preceding siblings of that tag
\* name); the path of an annotated element outside the body has one such
\* step per element from the root element down to it
C8_PathStepsFollowChain ==
    called =>
        \A e \in Annotated :
            IF BelowBody(e) \/ dom.tag[e] = "BODY"
            THEN StepsMatch(PathOf(dom, e), ChainFromBody(e))
            ELSE StepsMatch(PathOf(dom, e), ChainFromRoot(e))

\* an annotated element two levels below the body whose only preceding
\* sibling has another tag name, and an annotated element outside the body
\* whose path the map stores
C8_Witness ==
    /\ called
    /\ \E e, t, h \in Nodes(dom) :
          /\ e \in Annotated /\ h \in Annotated
          /\ Len(ChainFromBody(e)) = 2
          /\ dom.parent[t] = dom.parent[e] /\ t < e /\ dom.tag[t] # dom.tag[e]
          /\ PathOf(dom, e)[2].index = 0
          /\ ~BelowBody(h) /\ dom.tag[h] # "BODY"
          /\ \E i \in DOMAIN map : map[i] = PathOf(dom, h)

\* the children of n that a step selects: those of the step's tag name with
\* exactly index many preceding siblings of that tag name
StepTargets(n, step) ==
    LET kids == {c \in Nodes(dom) :
                    dom.parent[c] = n /\ ToLowerCase(dom.tag[c]) = step.tag}
    IN  {c \in kids : Cardinality({s \in kids : s < c}) = step.index}

\* the elements a path leads to from n, descending one step at a time
RECURSIVE Resolve(_, _, _)
Resolve(n, path, k) ==
    IF k > Len(path) THEN {n}
    ELSE UNION {Resolve(c, path, k + 1) : c \in StepTargets(n, path[k])}

Body == CHOOSE n \in Nodes(dom) : dom.tag[n] = "BODY"

\* C9: resolving the path of an annotated element below the body from the
\* body leads to that element and no other; no two elements have equal
\* paths; every stored path is the path of exactly one element
C9_PathRoundTrip ==
    called =>
        LET AP == [n \in Nodes(dom) |-> PathOf(dom, n)]
        IN  /\ \A e \in Annotated :
                  BelowBody(e) => Resolve(Body, AP[e], 1) = {e}
            /\ \A e1 \in Annotated :
                  \A e2 \in Nodes(dom) : e1 # e2 => AP[e1] # AP[e2]
            /\ \A i \in DOMAIN map : \E n \in Nodes(dom) : AP[n] = map[i]

\* a stored path of two steps with different tag names, of an element that
\* has a preceding sibling of its own tag name
C9_Witness ==
    /\ called
    /\ \E e \in Annotated :
          /\ BelowBody(e)
          /\ Len(PathOf(dom, e)) = 2
          /\ PathOf(dom, e)[1].tag # PathOf(dom, e)[2].tag
          /\ PathOf(dom, e)[2].index = 1
          /\ \E i \in DOMAIN map : map[i] = PathOf(dom, e)
          /\ Resolve(Body, PathOf(dom, e), 1) = {e}

\* s ends with tail
EndsWith(s, tail) ==
    /\ Len(tail) <= Len(s)
    /\ SubSeq(s, Len(s) - Len(tail) + 1, Len(s)) = tail

\* the user style sheet's text as the list holds it
UserStyleTexts ==
    IF env.userSheet THEN <<(<<"pre.editor-colors", "user">>)>> ELSE <<>>

\* the syntax theme's texts as the list holds them: the named theme's sheets
\* when it is loaded, else the registered atom-text-editor styles
SyntaxThemeTexts ==
    IF env.syntaxThemeName = "one-dark-syntax"
    THEN <<(<<"pre.editor-colors", "one-dark-syntax">>)>>
    ELSE <<(<<"pre.editor-colors", "syntax">>)>>

\* the end of the list for a display argument
ExpectedTail(display) ==
    <<(<<"styles-client", "generic">>)>>
    \o (IF display THEN <<(<<"styles-client", "display">>)>> ELSE <<>>)
    \o <<(<<"styles-client", IF env.useGitHubStyle THEN "github" ELSE "default">>)>>
    \o SyntaxThemeTexts
    \o UserStyleTexts

\* C10: without a test override the returned list ends with generic, display
\* (only for display = true), github or default, the syntax theme styles and
\* the user styles, in this order; for display = false it is nothing more
C10_StyleOrder ==
    (Len(shown) >= 1 /\ ~env.override) =>
        LET display == shown[Len(shown)]
        IN  /\ EndsWith(styles, ExpectedTail(display))
            /\ ~display => styles = ExpectedTail(display)

\* a display call that put styles before generic, and an export call with a
\* user style sheet
C10_Witness ==
    /\ Len(shown) = 2 /\ ~env.override /\ env.userSheet
    /\ shown[1] /\ ~shown[2]
    /\ env.globalStyles /\ env.importPackageStyles = <<"*">>
    /\ Len(styles) = 4

=============================================================================
